---------------------------- MODULE Spec2Model ----------------------------
(*************************************************************************)
(* A model of the retrieval-augmented chat backend:                      *)
(*   - backend/utils/vector_math.py : cosine_similarity, top_k_similar   *)
(*   - backend/scripts/ingest.py    : chunk_text                         *)
(*   - backend/server.py            : the session map and its handlers   *)
(* Three specifications share the module: SpecRank (the ranker),         *)
(* SpecChunk (the chunker) and Spec (the serving layer's sessions).      *)
(*************************************************************************)
EXTENDS Integers, Sequences, FiniteSets, TLC

VARIABLES
    \* ---- top_k_similar (vector_math.py) ----
    query_vector,   \* the query embedding
    documents,      \* the candidate list: a sequence of embeddings
    k,              \* number of results asked for
    threshold,      \* minimum similarity, an exact rational [num, den]
    doc_i,          \* position of the for loop over documents
    score,          \* what the last cosine_similarity call returned
    scored,         \* the list being built, then sorted
    result,         \* the returned list
    rpc,            \* position in top_k_similar
    \* ---- chunk_text (ingest.py) ----
    text,           \* the input string, a sequence of characters
    chunk_size,
    overlap,
    words,          \* text.split()
    chunks,         \* the list of chunk strings
    start,          \* the window's start index (0-based, as in the code)
    cpc,            \* position in chunk_text
    \* ---- sessions (server.py) ----
    sessions,       \* the global dict: sessionId -> list of turns
    pc,             \* position of the one chat coroutine
    req,            \* the chat request being served
    history,        \* chat's local reference to the session's list
    reply,          \* what call_openrouter returned
    issued,         \* the uuids new_session has handed out
    nchats,         \* chat requests received so far
    log,            \* ghost: exchanges completed per session since created/cleared
    base,           \* ghost: the session's turns when the chat started
    raced,          \* ghost: clear_session popped req's key while chat was in flight
    stale           \* ghost: sessions last written by a chat that a clear_session raced

rankVars  == <<query_vector, documents, k, threshold, doc_i, score, scored, result, rpc>>
chunkVars == <<text, chunk_size, overlap, words, chunks, start, cpc>>
sessVars  == <<sessions, pc, req, history, reply, issued, nchats, log, base, raced,
               stale>>
vars      == <<rankVars, chunkVars, sessVars>>

\* what a step of one component leaves alone
RankFrame  == UNCHANGED <<chunkVars, sessVars>>
ChunkFrame == UNCHANGED <<rankVars, sessVars>>
SessFrame  == UNCHANGED <<rankVars, chunkVars>>

-----------------------------------------------------------------------------
(* Bounds of the model *)

MaxDocs == 3
MaxK == 3

-----------------------------------------------------------------------------
(* Helpers on sequences and numbers *)

Min(a, b) == IF a <= b THEN a ELSE b
Max(a, b) == IF a >= b THEN a ELSE b

RECURSIVE SumTo(_, _)
\* f[1] + ... + f[n]
SumTo(f, n) == IF n = 0 THEN 0 ELSE f[n] + SumTo(f, n - 1)

\* The exact square root of a perfect square (the inputs are chosen so that
\* every norm is one): otherwise the floor of the root.
ISqrt(n) == CHOOSE r \in 0..n : r * r <= n /\ (r + 1) * (r + 1) > n

\* A float is modelled as the exact rational num/den; raised marks a call that
\* ended in an exception instead of returning one.
Rat(n, d) == [raised |-> FALSE, num |-> n, den |-> d]

ValueError == [raised |-> TRUE, num |-> 0, den |-> 1]

\* a >= b for rationals with positive denominators
RatGeq(a, b) == a.num * b.den >= b.num * a.den

-----------------------------------------------------------------------------
(* vector_math.py *)

\* Inputs: embeddings whose Euclidean norm is an integer, so that the floating
\* point value of every cosine is the rational the model computes. Two of them
\* have another dimension.
Vectors == { <<1, 0>>, <<3, 4>>, <<5, 12>>, <<-3, 4>>, <<0, 0>>,
             <<1, 0, 0>>, <<0, 0, 0>> }

Queries == { <<1, 0>>, <<3, 4>>, <<0, 0>> }

\* 0.30 is the server's SIMILARITY_THRESHOLD; 3/5 and 63/65 are scores some
\* candidate has exactly; 0.969231 is round(63/65, 6), just above 63/65.
Thresholds == { Rat(0, 1), Rat(3, 10), Rat(3, 5), Rat(63, 65), Rat(969231, 1000000) }

\* np.linalg.norm
Norm(v) == ISqrt(SumTo([i \in 1..Len(v) |-> v[i] * v[i]], Len(v)))

\* np.dot of two 1-d arrays of one shape
Dot(a, b) == SumTo([i \in 1..Len(a) |-> a[i] * b[i]], Len(a))

\* cosine_similarity: the zero-norm guard comes first, then np.dot and the division
cosine_similarity(vec_a, vec_b) ==
    LET norm_a == Norm(vec_a)
        norm_b == Norm(vec_b)
    IN  IF norm_a = 0 \/ norm_b = 0 THEN Rat(0, 1)
        ELSE IF Len(vec_a) # Len(vec_b) THEN ValueError  \* np.dot: shapes not aligned
        ELSE Rat(Dot(vec_a, vec_b), norm_a * norm_b)

\* round(x, 6), in millionths: the nearest, ties to even
Round6(x) ==
    LET n == x.num * 1000000
        q == n \div x.den
        r == n - q * x.den
    IN  IF 2 * r < x.den THEN q
        ELSE IF 2 * r > x.den THEN q + 1
        ELSE IF q % 2 = 0 THEN q ELSE q + 1

PassesThreshold_strict(s, thr) == ~RatGeq(thr, s)

\* the filter: score >= threshold, on the unrounded score
PassesThreshold(s, thr) == RatGeq(s, thr)

\* {**doc, "score": round(score, 6)}; idx stands for the document's other fields
ScoredDoc(i, emb, s) == [idx |-> i, embedding |-> emb, score |-> Round6(s)]

RECURSIVE InsertDesc(_, _)
\* x put into the descending list s behind every entry of a score >= its own
InsertDesc(x, s) ==
    IF s = <<>> THEN <<x>>
    ELSE IF Head(s).score >= x.score THEN <<Head(s)>> \o InsertDesc(x, Tail(s))
    ELSE <<x>> \o s

RECURSIVE SortFrom(_, _)
SortFrom(s, acc) ==
    IF s = <<>> THEN acc ELSE SortFrom(Tail(s), InsertDesc(Head(s), acc))

SortDesc_none(s) == s

\* list.sort(key=score, reverse=True): stable, equal scores keep their order
SortDesc(s) == SortFrom(s, <<>>)

TopSlice_all(s, n) == s

\* scored[:k], for k >= 0
TopSlice(s, n) == SubSeq(s, 1, Min(n, Len(s)))

RankInit ==
    /\ query_vector \in Queries
    /\ documents \in UNION { [1..n -> Vectors] : n \in 0..MaxDocs }
    /\ k \in 1..MaxK
    /\ threshold \in Thresholds
    /\ doc_i = 1
    /\ score = Rat(0, 1)
    /\ scored = <<>>
    /\ result = <<>>
    /\ rpc = "loop"

\* one iteration of the for loop: a cosine that raises ends the call
ScoreDoc ==
    /\ rpc = "loop"
    /\ doc_i <= Len(documents)
    /\ LET s == cosine_similarity(query_vector, documents[doc_i])
       IN  /\ score' = s
           /\ IF s.raised
              THEN /\ rpc' = "error"
                   /\ UNCHANGED <<scored, doc_i>>
              ELSE /\ scored' = IF PassesThreshold(s, threshold)
                                THEN Append(scored, ScoredDoc(doc_i, documents[doc_i], s))
                                ELSE scored
                   /\ doc_i' = doc_i + 1
                   /\ rpc' = "loop"
    /\ UNCHANGED <<query_vector, documents, k, threshold, result>>
    /\ RankFrame

SortScored ==
    /\ rpc = "loop"
    /\ doc_i > Len(documents)
    /\ scored' = SortDesc(scored)
    /\ rpc' = "return"
    /\ UNCHANGED <<query_vector, documents, k, threshold, doc_i, score, result>>
    /\ RankFrame

ReturnTopK ==
    /\ rpc = "return"
    /\ result' = TopSlice(scored, k)
    /\ rpc' = "done"
    /\ UNCHANGED <<query_vector, documents, k, threshold, doc_i, score, scored>>
    /\ RankFrame

RankNext == ScoreDoc \/ SortScored \/ ReturnTopK

-----------------------------------------------------------------------------
(* ingest.py *)

MaxTextLen == 9
MaxParam == 3
MaxChunks == 6

Space == " "

Chars == { "a", Space }

RECURSIVE SplitFrom(_, _, _)
\* str.split(): the maximal runs of non-whitespace characters, in order
SplitFrom(s, cur, acc) ==
    IF s = <<>> THEN (IF cur = <<>> THEN acc ELSE Append(acc, cur))
    ELSE IF Head(s) = Space
         THEN SplitFrom(Tail(s), <<>>, IF cur = <<>> THEN acc ELSE Append(acc, cur))
         ELSE SplitFrom(Tail(s), Append(cur, Head(s)), acc)

Split(s) == SplitFrom(s, <<>>, <<>>)

RECURSIVE Join(_)
\* " ".join(ws)
Join(ws) ==
    IF ws = <<>> THEN <<>>
    ELSE IF Len(ws) = 1 THEN ws[1]
    ELSE ws[1] \o <<Space>> \o Join(Tail(ws))

\* a slice bound as Python resolves it: negative counts from the end, then clamped
SliceIndex(i, n) == IF i < 0 THEN Max(i + n, 0) ELSE Min(i, n)

\* s[lo:hi] with 0-based bounds
PySlice(s, lo, hi) == SubSeq(s, SliceIndex(lo, Len(s)) + 1, SliceIndex(hi, Len(s)))

NextStart_noOverlap(st, size, ov) == st + size

\* start += chunk_size - overlap
NextStart(st, size, ov) == st + size - ov

IsLastWindow_strict(e, n) == e > n

\* if end >= len(words): break
IsLastWindow(e, n) == e >= n

ChunkInit ==
    /\ text \in UNION { [1..n -> Chars] : n \in 0..MaxTextLen }
    /\ chunk_size \in -1..MaxParam
    /\ overlap \in -1..MaxParam
    /\ words = <<>>
    /\ chunks = <<>>
    /\ start = 0
    /\ cpc = "split"

\* words = text.split(); chunks = []; start = 0
ChunkSplit ==
    /\ cpc = "split"
    /\ words' = Split(text)
    /\ chunks' = <<>>
    /\ start' = 0
    /\ cpc' = "loop"
    /\ UNCHANGED <<text, chunk_size, overlap>>
    /\ ChunkFrame

\* one pass of the while loop's body. Nothing in the code bounds the number of
\* passes; the model stops a run whose chunk list has reached MaxChunks.
ChunkWindow ==
    /\ cpc = "loop"
    /\ start < Len(words)
    /\ Len(chunks) < MaxChunks
    /\ LET end == start + chunk_size
       IN  /\ chunks' = Append(chunks, Join(PySlice(words, start, end)))
           /\ IF IsLastWindow(end, Len(words))
              THEN /\ cpc' = "done"
                   /\ start' = start
              ELSE /\ cpc' = "loop"
                   /\ start' = NextStart(start, chunk_size, overlap)
    /\ UNCHANGED <<text, chunk_size, overlap, words>>
    /\ ChunkFrame

\* the while condition fails: return chunks
ChunkReturn ==
    /\ cpc = "loop"
    /\ start >= Len(words)
    /\ cpc' = "done"
    /\ UNCHANGED <<text, chunk_size, overlap, words, chunks, start>>
    /\ ChunkFrame

ChunkNext == ChunkSplit \/ ChunkWindow \/ ChunkReturn

-----------------------------------------------------------------------------
(* server.py: the session map *)

MaxChats == 6

MAX_HISTORY_PAIRS == 5

\* sessionIds a client makes up, and the uuids new_session can draw
ClientIds == { "s1" }
Uuids == { "u1" }

NoRequest == [sid |-> "", msg |-> 0]

\* The content of a message is never inspected by the handlers: the n-th chat
\* request carries the content n, and its reply is the reply to n.
UserTurn(m) == [role |-> "user", content |-> m]
AssistantTurn(r) == [role |-> "assistant", content |-> r]

\* s[-n:] for n >= 1
LastN(s, n) == SubSeq(s, Max(1, Len(s) - n + 1), Len(s))

\* d with key x removed: dict.pop(x, None)
Pop(d, x) == [y \in DOMAIN d \ {x} |-> d[y]]

\* d[x] = v
Put(d, x, v) == [y \in DOMAIN d \cup {x} |-> IF y = x THEN v ELSE d[y]]

\* chat holds a reference to the list stored under its key (lines 195-204)
HoldsList == pc \in {"embed", "llm", "append_user", "append_assistant", "store"}

\* The list chat holds is the object stored under req.sid for as long as that key
\* has not been popped: no other handler stores under a key that is in use.
Aliased == HoldsList /\ req.sid \in DOMAIN sessions

SessInit ==
    /\ sessions = << >>
    /\ pc = "idle"
    /\ req = NoRequest
    /\ history = <<>>
    /\ reply = 0
    /\ issued = {}
    /\ nchats = 0
    /\ log = << >>
    /\ base = <<>>
    /\ raced = FALSE
    /\ stale = {}

\* chat, lines 193-194: the request arrives, an unknown sessionId gets an empty list.
\* chat is a coroutine with no await in it: the event loop runs one at a time.
ChatStart(sid) ==
    /\ pc = "idle"
    /\ nchats < MaxChats
    /\ nchats' = nchats + 1
    /\ req' = [sid |-> sid, msg |-> nchats + 1]
    /\ IF sid \notin DOMAIN sessions
       THEN /\ sessions' = Put(sessions, sid, <<>>)
            /\ log' = Put(log, sid, <<>>)
       ELSE UNCHANGED <<sessions, log>>
    /\ pc' = "lookup"
    /\ UNCHANGED <<history, reply, issued, base, raced, stale>>
    /\ SessFrame

\* chat, line 195: history = sessions[req.sessionId]
ChatLookup ==
    /\ pc = "lookup"
    /\ req.sid \in DOMAIN sessions
    /\ history' = sessions[req.sid]
    /\ base' = sessions[req.sid]
    /\ raced' = FALSE
    /\ pc' = "embed"
    /\ UNCHANGED <<sessions, req, reply, issued, nchats, log, stale>>
    /\ SessFrame

\* chat, line 195, the key popped since line 193: KeyError, the request fails
ChatKeyError ==
    /\ pc = "lookup"
    /\ req.sid \notin DOMAIN sessions
    /\ pc' = "idle"
    /\ UNCHANGED <<sessions, req, history, reply, issued, nchats, log, base, raced, stale>>
    /\ SessFrame

\* chat, lines 197-199: embed_query, retrieve_chunks, build_messages
ChatEmbedOk ==
    /\ pc = "embed"
    /\ pc' = "llm"
    /\ UNCHANGED <<sessions, req, history, reply, issued, nchats, log, base, raced, stale>>
    /\ SessFrame

\* embed_query raises HTTPException(500)
ChatEmbedFail ==
    /\ pc = "embed"
    /\ pc' = "idle"
    /\ UNCHANGED <<sessions, req, history, reply, issued, nchats, log, base, raced, stale>>
    /\ SessFrame

\* chat, line 200: call_openrouter returns the reply
ChatLLMOk ==
    /\ pc = "llm"
    /\ reply' = req.msg
    /\ pc' = "append_user"
    /\ UNCHANGED <<sessions, req, history, issued, nchats, log, base, raced, stale>>
    /\ SessFrame

ChatLLMFail_recordsUser ==
    /\ pc = "llm"
    /\ pc' = "idle"
    /\ history' = Append(history, UserTurn(req.msg))
    /\ sessions' = IF Aliased THEN Put(sessions, req.sid, history') ELSE sessions
    /\ UNCHANGED <<req, reply, issued, nchats, log, base, raced, stale>>
    /\ SessFrame

\* call_openrouter raises HTTPException (429, 504 or 502)
ChatLLMFail ==
    /\ pc = "llm"
    /\ pc' = "idle"
    /\ UNCHANGED <<sessions, req, history, reply, issued, nchats, log, base, raced, stale>>
    /\ SessFrame

\* chat, line 202: history.append(user turn), in place
ChatAppendUser ==
    /\ pc = "append_user"
    /\ history' = Append(history, UserTurn(req.msg))
    /\ sessions' = IF Aliased THEN Put(sessions, req.sid, history') ELSE sessions
    /\ pc' = "append_assistant"
    /\ UNCHANGED <<req, reply, issued, nchats, log, base, raced, stale>>
    /\ SessFrame

\* chat, line 203: history.append(assistant turn), in place
ChatAppendAssistant ==
    /\ pc = "append_assistant"
    /\ history' = Append(history, AssistantTurn(reply))
    /\ sessions' = IF Aliased THEN Put(sessions, req.sid, history') ELSE sessions
    /\ pc' = "store"
    /\ UNCHANGED <<req, reply, issued, nchats, log, base, raced, stale>>
    /\ SessFrame

\* chat, line 204: sessions[req.sessionId] = history[-(MAX_HISTORY_PAIRS * 2):]
ChatStore ==
    /\ pc = "store"
    /\ sessions' = Put(sessions, req.sid, LastN(history, MAX_HISTORY_PAIRS * 2))
    /\ log' = Put(log, req.sid,
                  (IF req.sid \in DOMAIN log THEN log[req.sid] ELSE <<>>)
                      \o <<UserTurn(req.msg), AssistantTurn(reply)>>)
    /\ pc' = "respond"
    /\ stale' = IF raced THEN stale \cup {req.sid} ELSE stale
    /\ UNCHANGED <<req, history, reply, issued, nchats, base, raced>>
    /\ SessFrame

\* chat, lines 206-212: the response is built and returned
ChatRespond ==
    /\ pc = "respond"
    /\ pc' = "idle"
    /\ UNCHANGED <<sessions, req, history, reply, issued, nchats, log, base, raced, stale>>
    /\ SessFrame

\* new_session: a fresh uuid gets an empty list. A plain def: it runs in the
\* thread pool, at any point of a chat.
NewSession ==
    \E sid \in Uuids \ issued :
        /\ issued' = issued \cup {sid}
        /\ sessions' = Put(sessions, sid, <<>>)
        /\ log' = Put(log, sid, <<>>)
        /\ UNCHANGED <<pc, req, history, reply, nchats, base, raced, stale>>
        /\ SessFrame

\* clear_session: sessions.pop(session_id, None). A plain def: it runs in the
\* thread pool, at any point of a chat.
ClearSession(sid) ==
    /\ sessions' = Pop(sessions, sid)
    /\ log' = Pop(log, sid)
    /\ raced' = (raced \/ (HoldsList /\ sid = req.sid))
    /\ stale' = stale \ {sid}
    /\ UNCHANGED <<pc, req, history, reply, issued, nchats, base>>
    /\ SessFrame

SessNext ==
    \/ \E sid \in ClientIds \cup issued : ChatStart(sid)
    \/ ChatLookup
    \/ ChatKeyError
    \/ ChatEmbedOk
    \/ ChatEmbedFail
    \/ ChatLLMOk
    \/ ChatLLMFail
    \/ ChatAppendUser
    \/ ChatAppendAssistant
    \/ ChatStore
    \/ ChatRespond
    \/ NewSession
    \/ \E sid \in ClientIds \cup issued : ClearSession(sid)

-----------------------------------------------------------------------------
(* The three specifications *)

RankIdle ==
    /\ query_vector = <<>>
    /\ documents = <<>>
    /\ k = 1
    /\ threshold = Rat(0, 1)
    /\ doc_i = 1
    /\ score = Rat(0, 1)
    /\ scored = <<>>
    /\ result = <<>>
    /\ rpc = "off"

ChunkIdle ==
    /\ text = <<>>
    /\ chunk_size = 1
    /\ overlap = 0
    /\ words = <<>>
    /\ chunks = <<>>
    /\ start = 0
    /\ cpc = "off"

Init == RankIdle /\ ChunkIdle /\ SessInit

Next == SessNext

Spec == Init /\ [][Next]_vars

InitRank == RankInit /\ ChunkIdle /\ SessInit

SpecRank == InitRank /\ [][RankNext]_vars

InitChunk == RankIdle /\ ChunkInit /\ SessInit

SpecChunk == InitChunk /\ [][ChunkNext]_vars

-----------------------------------------------------------------------------
(* Properties of top_k_similar and cosine_similarity, under SpecRank *)

\* the similarity of candidate i to the query
CosOf(i) == cosine_similarity(query_vector, documents[i])

\* the candidates whose similarity is >= threshold
Passing == { i \in 1..Len(documents) : RatGeq(CosOf(i), threshold) }

\* the candidates that were returned
Returned == { result[j].idx : j \in 1..Len(result) }

\* C1: a call that returns, returns exactly min(k, m) entries, m being the number
\* of candidates whose similarity is >= threshold: never more than k, and fewer
\* than k only when fewer than k candidates pass.
C1_KCap ==
    rpc = "done" => Len(result) = Min(k, Cardinality(Passing))

\* the cap cuts: more candidates pass than the k asked for, and one does not pass
C1_Witness ==
    /\ rpc = "done"
    /\ Cardinality(Passing) > k
    /\ Cardinality(Passing) < Len(documents)
    /\ Len(result) = k

\* C2: the returned list is in descending order of the rounded score its entries
\* carry, and no passing candidate that was left out has a rounded score above
\* that of a returned entry.
C2_Descending ==
    rpc = "done" =>
        /\ \A i, j \in 1..Len(result) : i < j => result[i].score >= result[j].score
        /\ \A c \in Passing \ Returned : \A j \in 1..Len(result) :
               Round6(CosOf(c)) <= result[j].score

\* the sort moved a later candidate before an earlier one, and the cap left one out
C2_Witness ==
    /\ rpc = "done"
    /\ \E i, j \in 1..Len(result) :
           i < j /\ result[i].idx > result[j].idx /\ result[i].score > result[j].score
    /\ Passing \ Returned # {}

\* C3: nothing of a similarity below threshold is returned, and a candidate whose
\* similarity equals threshold is returned unless k entries of a score at least
\* as high fill the result.
C3_ThresholdInclusive ==
    rpc = "done" =>
        /\ \A j \in 1..Len(result) : RatGeq(CosOf(result[j].idx), threshold)
        /\ \A i \in 1..Len(documents) :
               (RatGeq(CosOf(i), threshold) /\ RatGeq(threshold, CosOf(i))) =>
                   \/ i \in Returned
                   \/ /\ Len(result) = k
                      /\ \A j \in 1..Len(result) : result[j].score >= Round6(CosOf(i))

\* a candidate scoring exactly the threshold (a cosine that rounding changes) is
\* returned, and one below the threshold is not
C3_Witness ==
    /\ rpc = "done"
    /\ \E j \in 1..Len(result) :
           /\ RatGeq(threshold, CosOf(result[j].idx))
           /\ result[j].score * threshold.den # threshold.num * 1000000
    /\ \E i \in 1..Len(documents) : i \notin Passing

\* C7: a candidate whose embedding length differs from the query's is never passed
\* over: the cosine call on it raises, so the loop never moves beyond it and the
\* call returns no result.
C7_MismatchSignalled ==
    \A i \in 1..Len(documents) :
        i < doc_i => Len(documents[i]) = Len(query_vector)

-----------------------------------------------------------------------------
(* Properties of chunk_text, under SpecChunk *)

ValidParams == chunk_size >= 1 /\ 0 <= overlap /\ overlap < chunk_size

\* overlap >= chunk_size, or a parameter below what any section of the
\* specification allows (an overlap of 0 is used as valid by its scenario)
InvalidParams == overlap >= chunk_size \/ chunk_size <= 0 \/ overlap < 0

\* s without its first n elements
Drop(s, n) == IF n >= Len(s) THEN <<>> ELSE SubSeq(s, n + 1, Len(s))

RECURSIVE Rebuild(_, _, _)
\* the words of the chunks cs, the first ov words of each but the first removed
Rebuild(cs, ov, first) ==
    IF cs = <<>> THEN <<>>
    ELSE (IF first THEN Split(Head(cs)) ELSE Drop(Split(Head(cs)), ov))
             \o Rebuild(Tail(cs), ov, FALSE)

\* C4: with valid parameters chunk_text goes on to its return (every pass of
\* the loop has advanced start, so no more than len(words) passes are made), and
\* the chunks with their overlaps removed are the words of the text, in order.
C4_Coverage ==
    ValidParams =>
        /\ cpc = "loop" => Len(chunks) <= start
        /\ cpc # "done" => ENABLED ChunkNext
        /\ cpc = "done" => Rebuild(chunks, overlap, TRUE) = Split(text)

\* three or more overlapping chunks were returned
C4_Witness ==
    /\ cpc = "done"
    /\ ValidParams
    /\ overlap >= 1
    /\ Len(chunks) >= 3

\* C5 as stated, on a chunk_size >= 1 and an overlap >= 0: a text of at most
\* chunk_size words yields exactly one chunk, made of all its words.
C5_ShortTextOneChunk ==
    (cpc = "done" /\ chunk_size >= 1 /\ overlap >= 0 /\ Len(Split(text)) <= chunk_size) =>
        /\ Len(chunks) = 1
        /\ Split(chunks[1]) = Split(text)

\* C5 amended: a text of at least one and at most chunk_size words yields exactly
\* one chunk, made of all its words, whatever the overlap.
C5_ShortTextOneChunk_NonEmpty ==
    (cpc = "done" /\ Len(Split(text)) >= 1 /\ Len(Split(text)) <= chunk_size) =>
        /\ Len(chunks) = 1
        /\ Split(chunks[1]) = Split(text)

\* a text of exactly chunk_size >= 2 words, with an overlap >= 1
C5_Witness ==
    /\ cpc = "done"
    /\ Len(Split(text)) = chunk_size
    /\ chunk_size >= 2
    /\ overlap >= 1
    /\ Len(chunks) = 1

\* C6: with invalid parameters no chunk is ever emitted and no chunk list is
\* returned.
C6_InvalidParamsFailFast ==
    InvalidParams => (chunks = <<>> /\ cpc # "done")

-----------------------------------------------------------------------------
(* Properties of the session map, under Spec *)

Exchange == <<UserTurn(req.msg), AssistantTurn(reply)>>

\* the most recent min(2*MAX_HISTORY_PAIRS, Len(turns)) of turns
WindowOf(turns) ==
    IF Len(turns) <= 2 * MAX_HISTORY_PAIRS THEN turns
    ELSE [i \in 1..(2 * MAX_HISTORY_PAIRS) |->
             turns[Len(turns) - 2 * MAX_HISTORY_PAIRS + i]]

\* C8: between requests every stored turn list has at most 2*MAX_HISTORY_PAIRS
\* turns and is the most recent turns of the exchanges completed on its
\* sessionId since it was created or last cleared.
C8_SlidingWindow ==
    pc = "idle" =>
        \A sid \in DOMAIN sessions :
            /\ Len(sessions[sid]) <= 2 * MAX_HISTORY_PAIRS
            /\ sessions[sid] = WindowOf(log[sid])

\* the same, for the sessions no clear_session has raced a chat on
SlidingWindowUnlessRaced ==
    pc = "idle" =>
        \A sid \in DOMAIN sessions :
            /\ Len(sessions[sid]) <= 2 * MAX_HISTORY_PAIRS
            /\ sid \notin stale => sessions[sid] = WindowOf(log[sid])

\* a sixth exchange has pushed the first out of a session's window
SlidingWindowWitness ==
    /\ pc = "idle"
    /\ \E sid \in DOMAIN sessions \ stale :
           /\ Len(log[sid]) > 2 * MAX_HISTORY_PAIRS
           /\ sessions[sid] # log[sid]

\* C9: when a chat has stored its turns, the session holds what some serial order
\* of the chat and the clear_session requests that overlapped it leaves: with no
\* overlapping clear the window of the old turns and the new exchange, and with
\* one either nothing (clear last) or the new exchange alone (chat last).
C9_SerialOutcome ==
    pc = "respond" =>
        \/ req.sid \notin DOMAIN sessions
        \/ sessions[req.sid] = (IF raced THEN Exchange ELSE WindowOf(base \o Exchange))

\* the outcome when no clear_session overlapped the chat
SerialOutcomeUnlessRaced ==
    (pc = "respond" /\ ~raced) =>
        \/ req.sid \notin DOMAIN sessions
        \/ sessions[req.sid] = WindowOf(base \o Exchange)

WellFormed(turns) ==
    /\ Len(turns) % 2 = 0
    /\ \A i \in 1..Len(turns) :
           turns[i].role = (IF i % 2 = 1 THEN "user" ELSE "assistant")

\* until call_openrouter has returned a reply, the chat has recorded nothing
BeforeReply == pc \in {"idle", "lookup", "embed", "llm"}

\* C10: no step taken while the chat has no reply yet (every step of a chat that
\* fails is one) changes the turn list of a session that exists, and a session
\* such a step creates is empty; and every stored turn list, but for the instant
\* between a chat's two appends, has even length and alternates user, assistant
\* from a user turn.
C10_FailedChatRecordsNothing ==
    [][ /\ BeforeReply =>
              \A sid \in DOMAIN sessions' :
                  sessions'[sid] = (IF sid \in DOMAIN sessions THEN sessions[sid] ELSE <<>>)
        /\ pc' # "append_assistant" =>
              \A sid \in DOMAIN sessions' : WellFormed(sessions'[sid])
      ]_vars

\* a chat on a session that holds turns has failed: its message is in no turn
C10_Witness ==
    /\ pc = "idle"
    /\ req.sid \in DOMAIN sessions
    /\ sessions[req.sid] # <<>>
    /\ req.sid \notin stale
    /\ req.msg \notin { sessions[req.sid][i].content : i \in 1..Len(sessions[req.sid]) }

=============================================================================
